---- MODULE Spec2Model ----
(***************************************************************************)
(* Model of the depth-map integration driver (src/main.cxx): main,         *)
(* ReadArguments, AreVectorsOrthogonal, CreateReconstructionData,          *)
(* ReadKrtdFile, CreateGridMatrixFromInput and SplitString.                *)
(*                                                                         *)
(* Numbers are integers; the doubles of the program are exact on them.     *)
(* std::vector values are sequences (element i of the code is v[i+1]);     *)
(* vtk matrices are functions over 0..n-1 x 0..n-1, indexed as the code    *)
(* indexes them.  Text is a sequence of characters.  An out-of-bounds or   *)
(* uninitialised read is a nondeterministic value (or a crash).            *)
(***************************************************************************)
EXTENDS Integers, Sequences, FiniteSets

VARIABLES
  argv,          \* the command line, as vtksys::CommandLineArguments sees it
  files,         \* the data folder: the two list files and the .krtd files
  g,             \* the globals of lines 55-68
  pc,            \* position of main
  readOk,        \* what ReadArguments returned ("none" before it returns)
  crdOk,         \* what CreateReconstructionData returned ("none" before)
  depthStream,   \* std::ifstream depthMapContainer
  matrixStream,  \* std::ifstream matrixContainer
  matrixPath,    \* the local std::string matrixPath of the loader
  g_dataList,    \* std::vector<ReconstructionData*>
  g_gridMatrix,  \* vtkMatrix4x4* g_gridMatrix
  gridInfo,      \* the debug message of CreateGridMatrixFromInput
  filter,        \* the vtkCudaReconstructionFilter object of main
  output,        \* the transform filter's output and the written file
  events,        \* history: the steps of main taken so far, in order
  ub             \* history: undefined reads made so far

vars == << argv, files, g, pc, readOk, crdOk, depthStream, matrixStream,
           matrixPath, g_dataList, g_gridMatrix, gridInfo, filter, output,
           events, ub >>

-----------------------------------------------------------------------------
(* Bounds of the model *)

\* largest grid vector component (the smallest is -1)
MaxCoord == 1
\* largest number of lines in a list file
MaxLines == 2

Coord == (0 - 1) .. MaxCoord

\* what an uninitialised or out-of-bounds number may turn out to be
Indeterminate == {0, 7}

\* an optional value: <<>> when there is none, <<v>> when it is v
None == <<>>
Some(v) == <<v>>

-----------------------------------------------------------------------------
(* Vectors and matrices *)

\* std::vector<T>::operator[](i), i counted from 0 as in the code
At(v, i) == v[i + 1]

Vec3 == { <<a, b, c>> : a \in Coord, b \in Coord, c \in Coord }

Prefixes(v) == { SubSeq(v, 1, n) : n \in 0 .. Len(v) }

\* the arrays an operator[] read of elements 0..2 can produce: the elements
\* that exist, anything for those that do not
Reads3(v, garbage) ==
  { w \in [1 .. 3 -> (garbage \cup { v[i] : i \in 1 .. Len(v) })] :
      \A i \in 1 .. 3 : i <= Len(v) => w[i] = v[i] }

Short(v) == Len(v) < 3

\* vtkMath::Dot(const double a[3], const double b[3])
Dot(a, b) == a[1] * b[1] + a[2] * b[2] + a[3] * b[3]

\* vtkMatrix4x4::New() followed by Identity(); vtkMatrix3x3::New()
Identity(n) == [i \in 0 .. n - 1 |-> [j \in 0 .. n - 1 |-> IF i = j THEN 1 ELSE 0]]

\* vtkMatrix4x4::SetElement(i, j, value)
SetElement(m, i, j, value) == [m EXCEPT ![i][j] = value]

-----------------------------------------------------------------------------
(***************************************************************************)
(* The globals, lines 55-68, before main runs.  A std::string is the       *)
(* sequence of its characters: "" is <<>>, and the two default list file   *)
(* names are written with one character each.                              *)
(***************************************************************************)

GlobalsAtStart ==
  [ gridDims |-> <<>>, gridSpacing |-> <<>>, gridOrigin |-> <<>>,
    gridVecX |-> <<>>, gridVecY |-> <<>>, gridVecZ |-> <<>>,
    outputGridFilename |-> <<>>, pathFolder |-> <<>>,
    depthMapContainer |-> <<"v">>, KRTContainer |-> <<"k">>,
    rayPotentialThick |-> 2, rayPotentialRho |-> 3, noCuda |-> FALSE ]

\* arg.Parse(): every argument present on the command line is stored in the
\* variable AddArgument bound it to; an absent one leaves the variable alone
Given(a, old) == IF a = None THEN old ELSE a[1]

ParseArguments(a, old) ==
  [ gridDims |-> a.gridDims, gridSpacing |-> a.gridSpacing,
    gridOrigin |-> a.gridOrigin,
    gridVecX |-> a.gridVecX, gridVecY |-> a.gridVecY, gridVecZ |-> a.gridVecZ,
    outputGridFilename |-> Given(a.outputGridFilename, old.outputGridFilename),
    pathFolder |-> Given(a.dataFolder, old.pathFolder),
    depthMapContainer |-> Given(a.depthMapFile, old.depthMapContainer),
    KRTContainer |-> Given(a.KRTFile, old.KRTContainer),
    rayPotentialThick |-> Given(a.rayThick, old.rayPotentialThick),
    rayPotentialRho |-> Given(a.rayRho, old.rayPotentialRho),
    noCuda |-> a.noCuda ]

\* mutant of AreVectorsOrthogonal: the Z.X product is not tested
AreVectorsOrthogonalNoZX(X, Y, Z) ==
  Dot(X, Y) = 0 /\ Dot(Y, Z) = 0

\* AreVectorsOrthogonal, lines 221-227, on the arrays X, Y, Z of lines 217-219
AreVectorsOrthogonal(X, Y, Z) ==
  Dot(X, Y) = 0 /\ Dot(Y, Z) = 0 /\ Dot(Z, X) = 0

\* ReadArguments, line 197
NamesMissing(globals) ==
  \/ globals.outputGridFilename = <<>>
  \/ globals.depthMapContainer = <<>>
  \/ globals.KRTContainer = <<>>

-----------------------------------------------------------------------------
(***************************************************************************)
(* Text files and std::ifstream.  A text file is [open, lines, nl]: whether *)
(* it can be opened, its lines, and whether the last line ends with a      *)
(* newline.  A stream is [pos, eof, fail]: the lines consumed, eofbit and  *)
(* failbit.                                                                *)
(***************************************************************************)

NewStream == [pos |-> 0, eof |-> FALSE, fail |-> FALSE]

\* std::getline(stream, str): [stream, str] afterwards.  On a stream that is
\* not good() the sentry fails: failbit is set and str is left as it was.
\* Otherwise str is erased and filled up to the next newline; reaching the
\* end of the file sets eofbit, and extracting nothing sets failbit too.
GetLine(stream, file, str) ==
  IF stream.eof \/ stream.fail
    THEN [stream |-> [stream EXCEPT !.fail = TRUE], str |-> str]
  ELSE IF stream.pos = Len(file.lines)
    THEN [stream |-> [stream EXCEPT !.eof = TRUE, !.fail = TRUE], str |-> <<>>]
  ELSE [stream |-> [stream EXCEPT !.pos = @ + 1,
                                  !.eof = (stream.pos + 1 = Len(file.lines)
                                           /\ ~file.nl)],
        str |-> file.lines[stream.pos + 1]]

\* position of the first delim in s, 0 when there is none
RECURSIVE FirstDelim(_, _, _)
FirstDelim(s, delim, i) ==
  IF i > Len(s) THEN 0
  ELSE IF s[i] = delim THEN i
  ELSE FirstDelim(s, delim, i + 1)

\* SplitString, lines 411-421: the items std::getline(ss, item, delim)
\* extracts from s, appended to elems
RECURSIVE SplitString(_, _, _)
SplitString(s, delim, elems) ==
  IF s = <<>> THEN elems
  ELSE LET k == FirstDelim(s, delim, 1) IN
       IF k = 0 THEN Append(elems, s)
       ELSE SplitString(SubSeq(s, k + 1, Len(s)), delim,
                        Append(elems, SubSeq(s, 1, k - 1)))

Slash == "/"
Backslash == "\\"

\* g_pathFolder + "\\" + name
InFolder(folder, name) == folder \o <<Backslash>> \o name

\* The file a path names: the path's components between backslashes, "."
\* components dropped (paths are relative to the working directory)
Resolve(path) ==
  SelectSeq(SplitString(path, Backslash, <<>>), LAMBDA c : c # <<".">>)

-----------------------------------------------------------------------------
(***************************************************************************)
(* .krtd files.  A line of a .krtd file is a sequence of tokens; a token   *)
(* is a number or a word that is no number.                                *)
(***************************************************************************)

Num(n) == [isNum |-> TRUE, val |-> n]
Word == [isNum |-> FALSE, val |-> 0]

NoFile == [open |-> FALSE, lines |-> <<>>, nl |-> FALSE]

\* std::ifstream file(path) on the files of a kind ("text" or "krtd")
FileAt(kind, path) ==
  IF Resolve(path) \in DOMAIN files[kind] THEN files[kind][Resolve(path)] ELSE NoFile

\* `line` after the n-th getline(file, line) of ReadKrtdFile, with the stream
RECURSIVE KrtdLine(_, _)
KrtdLine(file, n) ==
  IF n = 0 THEN [stream |-> NewStream, str |-> <<>>]
  ELSE LET before == KrtdLine(file, n - 1)
       IN  GetLine(before.stream, file, before.str)

\* `iss >> value`, the j-th extraction (j from 0) from std::istringstream
\* iss(line): <<v>> when value is written, <<>> when it is left
\* uninitialised.  A word that is no number writes 0 and sets failbit; once
\* the stream has failed or is at its end the sentry fails and nothing is
\* written.
Extract(line, j) ==
  IF j + 1 > Len(line) THEN None
  ELSE IF \E i \in 1 .. j : ~line[i].isNum THEN None
  ELSE IF line[j + 1].isNum THEN Some(line[j + 1].val)
  ELSE Some(0)

\* The 21 extractions of ReadKrtdFile in order: K(i,j) is 3i+j, R(i,j) is
\* 9+3i+j, T(i) is 18+i.  The getline that fills `line` for each.
LineOfRead(k) ==
  IF k < 9 THEN (k \div 3) + 1
  ELSE IF k < 18 THEN ((k - 9) \div 3) + 5
  ELSE 9

TokenOfRead(k) == IF k < 18 THEN k % 3 ELSE k - 18

Extracted(file, k) == Extract(KrtdLine(file, LineOfRead(k)).str, TokenOfRead(k))

\* the extractions that leave `value` uninitialised
Holes(file) == { k \in 0 .. 20 : Extracted(file, k) = None }

\* what SetElement receives for extraction k
Value(file, garbage, k) ==
  IF Extracted(file, k) = None THEN garbage[k] ELSE Extracted(file, k)[1]

\* line 368
StoreT(matrixTR, i, value) == SetElement(matrixTR, i, 3, value)

\* lines 329-341: matrix K
ReadK(file, garbage, matrixK) ==
  [i \in 0 .. 2 |-> [j \in 0 .. 2 |-> Value(file, garbage, 3 * i + j)]]

\* lines 345-357: matrix R, into the upper-left block of matrixTR
ReadR(file, garbage, matrixTR) ==
  [i \in 0 .. 3 |-> [j \in 0 .. 3 |->
     IF i < 3 /\ j < 3 THEN Value(file, garbage, 9 + 3 * i + j)
     ELSE matrixTR[i][j]]]

\* lines 361-369: vector T
ReadT(file, garbage, matrixTR) ==
  StoreT(StoreT(StoreT(matrixTR, 0, Value(file, garbage, 18)),
                1, Value(file, garbage, 19)),
         2, Value(file, garbage, 20))

\* lines 371-376
FinalizeTR(matrixTR) ==
  SetElement([matrixTR EXCEPT ![3] = [j \in 0 .. 3 |-> 0]], 3, 3, 1)

\* ReadKrtdFile, lines 317-379: [ok, matrixK, matrixTR]
ReadKrtdFile(file, garbage, matrixK, matrixTR) ==
  IF ~file.open
    THEN [ok |-> FALSE, matrixK |-> matrixK, matrixTR |-> matrixTR]
  ELSE [ok |-> TRUE,
        matrixK |-> ReadK(file, garbage, matrixK),
        matrixTR |-> FinalizeTR(ReadT(file, garbage, ReadR(file, garbage, matrixTR)))]

-----------------------------------------------------------------------------
(* main, lines 93-162, and the functions it calls *)

Failed == "exit_failure"
Crashed == "crashed"

\* mutant of AfterReadArguments: main goes on whatever ReadArguments returned
AfterReadArgumentsAlways(ok) == "load"

\* main, lines 95-98
AfterReadArguments(ok) == IF ok THEN "load" ELSE Failed

\* main, lines 103-107
AfterCreateReconstructionData(ok) == IF ok THEN "grid" ELSE Failed

\* ReadArguments, lines 166-211, with AreVectorsOrthogonal's reads of
\* g_gridVecX/Y/Z[0..2] (lines 217-219), which are out of bounds for a
\* vector of fewer than three elements
ReadArguments ==
  /\ pc = "start"
  /\ LET globals == ParseArguments(argv, g)
         short == Short(globals.gridVecX) \/ Short(globals.gridVecY)
                    \/ Short(globals.gridVecZ)
     IN  /\ g' = globals
         /\ events' = Append(events, "ReadArguments")
         /\ IF ~argv.parseOk \/ argv.help \/ NamesMissing(globals)
              THEN /\ readOk' = "false"
                   /\ pc' = AfterReadArguments(FALSE)
                   /\ ub' = ub
              ELSE /\ ub' = [ub EXCEPT !.vectorIndex = @ \/ short]
                   /\ \/ \E X \in Reads3(globals.gridVecX, Coord),
                            Y \in Reads3(globals.gridVecY, Coord),
                            Z \in Reads3(globals.gridVecZ, Coord) :
                          IF AreVectorsOrthogonal(X, Y, Z)
                            THEN readOk' = "true" /\ pc' = AfterReadArguments(TRUE)
                            ELSE readOk' = "false" /\ pc' = AfterReadArguments(FALSE)
                      \/ short /\ readOk' = "none" /\ pc' = Crashed
  /\ UNCHANGED << argv, files, crdOk, depthStream, matrixStream, matrixPath,
                  g_dataList, g_gridMatrix, gridInfo, filter, output >>

\* CreateReconstructionData, lines 236-250: the two list files are opened
OpenLists ==
  /\ pc = "load"
  /\ events' = Append(events, "CreateReconstructionData")
  /\ LET dmapGlobalFile == InFolder(g.pathFolder, g.depthMapContainer)
         krtGlobalFile == InFolder(g.pathFolder, g.KRTContainer)
     IN  IF ~FileAt("text", dmapGlobalFile).open \/ ~FileAt("text", krtGlobalFile).open
           THEN /\ crdOk' = "false"
                /\ pc' = AfterCreateReconstructionData(FALSE)
                /\ UNCHANGED << depthStream, matrixStream, matrixPath, g_dataList >>
           ELSE /\ depthStream' = NewStream
                /\ matrixStream' = NewStream
                /\ matrixPath' = <<>>
                /\ g_dataList' = <<>>
                /\ crdOk' = crdOk
                /\ pc' = "loop"
  /\ UNCHANGED << argv, files, g, readOk, g_gridMatrix, gridInfo, filter,
                  output, ub >>

\* vtkXMLImageDataReader on a path, lines 272-274 and 298: the reader's output
\* is the image of the file, or an empty image when the file cannot be read
DepthMapOf(path) ==
  [file |-> Resolve(path), read |-> Resolve(path) \in files.depth]

\* what elems[elems.size() - 1] of an empty elems may turn out to be
GarbageStrings == { <<"?">>, <<"p">> }

\* lines 283-302 for the file name `name` taken from the matrix list: the
\* .krtd file is read and, if it could be opened, a view is appended.
\* undefined is ub with the undefined reads of this iteration so far.
AppendView(depthMap, d, m, name, undefined) ==
  LET path == InFolder(g.pathFolder, name)
      file == FileAt("krtd", path)
  IN  /\ matrixPath' = path
      /\ IF ~file.open
           THEN g_dataList' = g_dataList /\ ub' = undefined
           ELSE \E garbage \in [Holes(file) -> Indeterminate] :
                  LET r == ReadKrtdFile(file, garbage, Identity(3), Identity(4))
                  IN  /\ g_dataList' = Append(g_dataList,
                           [ depthMap |-> depthMap,
                             matrixK |-> r.matrixK,
                             matrixTR |-> r.matrixTR,
                             \* history: where the view came from
                             depthLine |-> d.stream.pos,
                             matrixLine |-> m.stream.pos,
                             matrixFresh |-> m.stream.pos > matrixStream.pos,
                             krtd |-> Resolve(path) ])
                      /\ ub' = [undefined EXCEPT
                                  !.uninitialised = @ \/ Holes(file) # {}]

\* CreateReconstructionData, lines 253-303: one iteration of the while loop
LoadNext ==
  /\ pc = "loop"
  /\ ~depthStream.eof
  /\ LET dmapGlobalFile == InFolder(g.pathFolder, g.depthMapContainer)
         krtGlobalFile == InFolder(g.pathFolder, g.KRTContainer)
         \* depthMapContainer is good() whenever eof() is false
         d == GetLine(depthStream, FileAt("text", dmapGlobalFile), <<>>)
         elems == SplitString(d.str, Slash, <<>>)
     IN  /\ depthStream' = d.stream
         /\ IF elems = <<>>
              THEN UNCHANGED << matrixStream, matrixPath, g_dataList, ub, pc >>
              ELSE LET depthMapPath == InFolder(g.pathFolder, elems[Len(elems)])
                       m == GetLine(matrixStream, FileAt("text", krtGlobalFile),
                                    matrixPath)
                       melems == SplitString(m.str, Slash, <<>>)
                   IN  /\ matrixStream' = m.stream
                       /\ IF melems # <<>>
                            THEN /\ AppendView(DepthMapOf(depthMapPath), d, m,
                                               melems[Len(melems)], ub)
                                 /\ pc' = pc
                            ELSE \/ /\ pc' = Crashed
                                    /\ ub' = [ub EXCEPT !.emptyBack = TRUE]
                                    /\ UNCHANGED << matrixPath, g_dataList >>
                                 \/ /\ pc' = pc
                                    /\ \E name \in GarbageStrings :
                                         AppendView(DepthMapOf(depthMapPath), d, m, name,
                                                    [ub EXCEPT !.emptyBack = TRUE])
  /\ UNCHANGED << argv, files, g, readOk, crdOk, g_gridMatrix, gridInfo,
                  filter, output, events >>

\* mutant of EnoughData: the loader reports success whatever it loaded
EnoughDataAlways(dataList) == TRUE

\* lines 305-307
EnoughData(dataList) == Len(dataList) # 0

\* CreateReconstructionData, lines 305-312: the loop has ended
LoadDone ==
  /\ pc = "loop"
  /\ depthStream.eof
  /\ IF EnoughData(g_dataList)
       THEN crdOk' = "true" /\ pc' = AfterCreateReconstructionData(TRUE)
       ELSE crdOk' = "false" /\ pc' = AfterCreateReconstructionData(FALSE)
  /\ UNCHANGED << argv, files, g, readOk, depthStream, matrixStream, matrixPath,
                  g_dataList, g_gridMatrix, gridInfo, filter, output, events, ub >>

\* lines 385-397: the identity with row 0 set to X, row 1 to Y, row 2 to Z
CreateGridMatrix(X, Y, Z) ==
  [i \in 0 .. 3 |-> [j \in 0 .. 3 |->
     IF i < 3 /\ j < 3
       THEN (CASE i = 0 -> X[j + 1] [] i = 1 -> Y[j + 1] [] i = 2 -> Z[j + 1])
       ELSE Identity(4)[i][j]]]

Digit == <<"0", "1", "2", "3", "4", "5", "6", "7", "8", "9">>

RECURSIVE Decimal(_)
Decimal(n) ==
  IF n < 10 THEN Digit[n + 1] ELSE Decimal(n \div 10) \o Digit[(n % 10) + 1]

\* std::to_string(double), "%f", of a whole number
to_string(v) ==
  IF v < 0 THEN "-" \o Decimal(0 - v) \o ".000000" ELSE Decimal(v) \o ".000000"

\* lines 402-405: the three lines l1, l2, l3 of the debug message, each the
\* three numbers it prints
GridInfo(X, Y, Z) ==
  [i \in 0 .. 2 |->
     << to_string(X[i + 1]), to_string(Y[i + 1]), to_string(Z[i + 1]) >>]

\* CreateGridMatrixFromInput, lines 383-407
CreateGridMatrixFromInput ==
  /\ pc = "grid"
  /\ events' = Append(events, "CreateGridMatrixFromInput")
  /\ LET short == Short(g.gridVecX) \/ Short(g.gridVecY) \/ Short(g.gridVecZ)
     IN  /\ ub' = [ub EXCEPT !.vectorIndex = @ \/ short]
         /\ \/ \E X \in Reads3(g.gridVecX, Coord),
                  Y \in Reads3(g.gridVecY, Coord),
                  Z \in Reads3(g.gridVecZ, Coord) :
                /\ g_gridMatrix' = Some(CreateGridMatrix(X, Y, Z))
                /\ gridInfo' = Some(GridInfo(X, Y, Z))
                /\ pc' = "configure"
            \/ short /\ pc' = Crashed /\ UNCHANGED << g_gridMatrix, gridInfo >>
  /\ UNCHANGED << argv, files, g, readOk, crdOk, depthStream, matrixStream,
                  matrixPath, g_dataList, filter, output >>

\* main, lines 112-131: the grid is made from the arguments and the filter
\* is configured.  &g_gridDims[0] and its like are read as three numbers.
ConfigureFilter ==
  /\ pc = "configure"
  /\ events' = Append(events, "Configure")
  /\ LET short == Short(g.gridDims) \/ Short(g.gridSpacing) \/ Short(g.gridOrigin)
     IN  /\ ub' = [ub EXCEPT !.gridArray = @ \/ short]
         /\ \/ \E dims \in Reads3(g.gridDims, Indeterminate),
                  spacing \in Reads3(g.gridSpacing, Indeterminate),
                  origin \in Reads3(g.gridOrigin, Indeterminate) :
                /\ filter' = [ useCuda |-> ~g.noCuda,
                               rayPotentialRho |-> g.rayPotentialRho,
                               rayPotentialThickness |-> g.rayPotentialThick,
                               input |-> Some([dims |-> dims, spacing |-> spacing,
                                               origin |-> origin]),
                               dataList |-> Some(g_dataList),
                               gridMatrix |-> g_gridMatrix,
                               updated |-> FALSE ]
                /\ pc' = "update"
            \/ short /\ pc' = Crashed /\ filter' = filter
  /\ UNCHANGED << argv, files, g, readOk, crdOk, depthStream, matrixStream,
                  matrixPath, g_dataList, g_gridMatrix, gridInfo, output >>

\* main, line 132: cudaReconstructionFilter->Update()
Update ==
  /\ pc = "update"
  /\ events' = Append(events, "Update")
  /\ filter' = [filter EXCEPT !.updated = TRUE]
  /\ pc' = "transform"
  /\ UNCHANGED << argv, files, g, readOk, crdOk, depthStream, matrixStream,
                  matrixPath, g_dataList, g_gridMatrix, gridInfo, output, ub >>

\* main, lines 134-146: the grid matrix is applied to the filter's output
Transform ==
  /\ pc = "transform"
  /\ events' = Append(events, "Transform")
  /\ output' = [output EXCEPT !.transform = g_gridMatrix]
  /\ pc' = "write"
  /\ UNCHANGED << argv, files, g, readOk, crdOk, depthStream, matrixStream,
                  matrixPath, g_dataList, g_gridMatrix, gridInfo, filter, ub >>

\* main, lines 148-161: the output is written, the globals are cleaned and
\* main returns EXIT_SUCCESS
Write ==
  /\ pc = "write"
  /\ events' = Append(events, "Write")
  /\ output' = [output EXCEPT !.written = Some(g.outputGridFilename)]
  /\ g_gridMatrix' = None
  /\ g_dataList' = <<>>
  /\ pc' = "exit_success"
  /\ UNCHANGED << argv, files, g, readOk, crdOk, depthStream, matrixStream,
                  matrixPath, gridInfo, filter, ub >>

Next ==
  \/ ReadArguments
  \/ OpenLists
  \/ LoadNext
  \/ LoadDone
  \/ CreateGridMatrixFromInput
  \/ ConfigureFilter
  \/ Update
  \/ Transform
  \/ Write

-----------------------------------------------------------------------------
(***************************************************************************)
(* The runs checked.  Names are written with one character: the data       *)
(* folder is "d" or ".", the list files are "v" and "k", the depth maps    *)
(* "a" and "b", the .krtd files "p" and "q"; "x" and "n" name no file,     *)
(* and "z" is a directory in front of a name in a list.                    *)
(***************************************************************************)

Row(a, b, c) == << Num(a), Num(b), Num(c) >>

Text(lines, nl) == [open |-> TRUE, lines |-> lines, nl |-> nl]

\* a complete .krtd file: K, a blank line, R, a blank line, T
KrtdP ==
  Text(<< Row(5, 0, 2), Row(0, 5, 2), Row(0, 0, 1), <<>>,
          Row(0, 1, 0), Row(0, 0, 1), Row(1, 0, 0), <<>>,
          Row(3, 4, 6) >>, TRUE)

\* another one, without a newline after its last line
KrtdQ ==
  Text(<< Row(6, 0, 3), Row(0, 6, 3), Row(0, 0, 1), <<>>,
          Row(1, 0, 0), Row(0, 1, 0), Row(0, 0, 1), <<>>,
          Row(1, 2, 3) >>, FALSE)

\* the files of a data folder: the two list files, two .krtd files of
\* which "p" has the content given, and two depth maps
FilesIn(folder, depthList, matrixList, krtdP) ==
  LET At2(name) == Resolve(InFolder(folder, name))
  IN  [ text |-> [x \in {At2(<<"v">>), At2(<<"k">>)} |->
                    IF x = At2(<<"v">>) THEN depthList ELSE matrixList],
        krtd |-> [x \in {At2(<<"p">>), At2(<<"q">>)} |->
                    IF x = At2(<<"p">>) THEN krtdP ELSE KrtdQ],
        depth |-> {At2(<<"a">>), At2(<<"b">>)} ]

\* the text files of at most MaxLines lines drawn from Lines
TextFiles(Lines) ==
  { Text(l, nl) : l \in UNION { [1 .. n -> Lines] : n \in 0 .. MaxLines },
                  nl \in BOOLEAN } \ 
  { t \in { Text(l, nl) : l \in UNION { [1 .. n -> Lines] : n \in 0 .. MaxLines },
                          nl \in BOOLEAN } :
      \/ t.lines = <<>> /\ t.nl
      \/ t.lines # <<>> /\ ~t.nl /\ t.lines[Len(t.lines)] = <<>> }

DepthLines == { <<>>, <<"z", Slash, "b">>, <<"x">> }
MatrixLines == { <<>>, <<"p">>, <<"z", Slash, "q">>, <<"n">> }

OneView == FilesIn(<<"d">>, Text(<< <<"a">> >>, TRUE), Text(<< <<"p">> >>, TRUE), KrtdP)

DefaultArgv ==
  [ parseOk |-> TRUE, help |-> FALSE,
    gridDims |-> <<2, 2, 2>>, gridSpacing |-> <<1, 1, 1>>,
    gridOrigin |-> <<0, 0, 0>>,
    gridVecX |-> <<1, 0, 0>>, gridVecY |-> <<0, 1, 0>>, gridVecZ |-> <<0, 0, 1>>,
    outputGridFilename |-> Some(<<"o">>), dataFolder |-> Some(<<"d">>),
    depthMapFile |-> None, KRTFile |-> None,
    rayThick |-> None, rayRho |-> None, noCuda |-> FALSE ]

RayValues == { 0 - 1, 0, 2 }

\* the state when main is entered with command line a on the files f
Start(a, f) ==
  /\ argv = a
  /\ files = f
  /\ g = GlobalsAtStart
  /\ pc = "start"
  /\ readOk = "none"
  /\ crdOk = "none"
  /\ depthStream = NewStream
  /\ matrixStream = NewStream
  /\ matrixPath = <<>>
  /\ g_dataList = <<>>
  /\ g_gridMatrix = None
  /\ gridInfo = None
  /\ filter = [ useCuda |-> TRUE, rayPotentialRho |-> 0,
                rayPotentialThickness |-> 0, input |-> None,
                dataList |-> None, gridMatrix |-> None, updated |-> FALSE ]
  /\ output = [transform |-> None, written |-> None]
  /\ events = <<>>
  /\ ub = [ vectorIndex |-> FALSE, gridArray |-> FALSE, emptyBack |-> FALSE,
            uninitialised |-> FALSE ]

\* every triple of grid vectors, the rest of the command line as it should be
InitGeometry ==
  \E X \in Vec3, Y \in Vec3, Z \in Vec3 :
    Start([DefaultArgv EXCEPT !.gridVecX = X, !.gridVecY = Y, !.gridVecZ = Z],
          OneView)

\* the arguments given or not given, the grid vectors complete or not; the
\* data is in the folder "d" or in the root folder
InitArguments ==
  \E parseOk \in BOOLEAN, help \in BOOLEAN,
     out \in {None, Some(<<"o">>)}, folder \in {None, Some(<<"d">>)},
     depthMapFile \in {None, Some(<<>>)}, KRTFile \in {None, Some(<<>>)},
     X \in Prefixes(<<1, 0, 0>>), Y \in {<<>>, <<0, 1, 0>>},
     Z \in {<<0, 0>>, <<0, 0, 1>>}, where \in {<<>>, <<"d">>} :
    Start([DefaultArgv EXCEPT !.parseOk = parseOk, !.help = help,
             !.outputGridFilename = out, !.dataFolder = folder,
             !.depthMapFile = depthMapFile, !.KRTFile = KRTFile,
             !.gridVecX = X, !.gridVecY = Y, !.gridVecZ = Z],
          FilesIn(where, Text(<< <<"a">> >>, TRUE), Text(<< <<"p">> >>, TRUE), KrtdP))

\* the grid's dimensions, spacing and origin complete or not, the ray
\* potential's parameters and --noCuda
InitGrid ==
  \E dims \in {<<>>, <<2, 2>>, <<2, 2, 2>>},
     spacing \in {<<1, 1>>, <<1, 1, 1>>}, origin \in {<<0>>, <<0, 0, 0>>},
     thick \in {None} \cup { Some(v) : v \in RayValues },
     rho \in {None} \cup { Some(v) : v \in RayValues },
     noCuda \in BOOLEAN :
    Start([DefaultArgv EXCEPT !.gridDims = dims, !.gridSpacing = spacing,
             !.gridOrigin = origin, !.rayThick = thick, !.rayRho = rho,
             !.noCuda = noCuda],
          OneView)

\* the two list files, present or not, in the folder "d" or "."
InitLists ==
  \E folder \in {<<"d">>, <<".">>},
     depthList \in TextFiles(DepthLines) \cup {NoFile},
     matrixList \in TextFiles(MatrixLines) \cup {NoFile} :
    Start([DefaultArgv EXCEPT !.dataFolder = Some(folder)],
          FilesIn(folder, depthList, matrixList, KrtdP))

RowPool ==
  { Row(0, 1, 0), << Num(4), Num(5) >>, << Word, Num(1), Num(2) >>,
    << Num(1), Num(2), Num(3), Num(4) >> }

\* .krtd files of six to nine lines whose R and T lines may be malformed
KrtdFiles ==
  LET whole(r0, r2, t) ==
        << Row(5, 0, 2), Row(0, 5, 2), Row(0, 0, 1), <<>>,
           r0, Row(0, 0, 1), r2, <<>>, t >>
      all == { Text(SubSeq(whole(r0, r2, t), 1, n), nl) :
                 r0 \in RowPool, r2 \in RowPool, t \in RowPool,
                 n \in 6 .. 9, nl \in BOOLEAN }
  IN  { f \in all : f.nl \/ f.lines[Len(f.lines)] # <<>> }

\* one view whose .krtd file is any of KrtdFiles
InitKrtd ==
  \E krtdP \in KrtdFiles :
    Start(DefaultArgv,
          FilesIn(<<"d">>, Text(<< <<"a">> >>, TRUE), Text(<< <<"p">> >>, FALSE), krtdP))

Init == InitArguments \/ InitGrid \/ InitLists \/ InitKrtd

Spec == Init /\ [][Next]_vars

SpecGeometry == InitGeometry /\ [][Next]_vars

-----------------------------------------------------------------------------
(* Properties *)

Complete(v) == Len(v) = 3

Views == { g_dataList[i] : i \in 1 .. Len(g_dataList) }

Happened(e) == \E i \in 1 .. Len(events) : events[i] = e

\* C1: whenever the three configured grid vectors have a non-zero pairwise
\* dot product, ReadArguments returns false, main exits with EXIT_FAILURE
\* and the filter is never updated nor any output written; when the three
\* dot products are zero, ReadArguments does not reject the run.
C1_NonOrthogonalRejected ==
  LET X == argv.gridVecX
      Y == argv.gridVecY
      Z == argv.gridVecZ
  IN  (readOk # "none" /\ Complete(X) /\ Complete(Y) /\ Complete(Z)) =>
        IF  \/ X[1] * Y[1] + X[2] * Y[2] + X[3] * Y[3] # 0
            \/ Y[1] * Z[1] + Y[2] * Z[2] + Y[3] * Z[3] # 0
            \/ Z[1] * X[1] + Z[2] * X[2] + Z[3] * X[3] # 0
          THEN /\ readOk = "false"
               /\ pc = Failed
               /\ ~filter.updated
               /\ ~Happened("Update")
               /\ g_gridMatrix = None
               /\ output.written = None
          ELSE (argv.parseOk /\ ~argv.help /\ ~NamesMissing(g)) => readOk = "true"

\* the spec's example, X=(1,0,0), Y=(1,1,0), has been rejected
C1_Witness ==
  /\ argv.gridVecX = <<1, 0, 0>>
  /\ argv.gridVecY = <<1, 1, 0>>
  /\ argv.gridVecZ = <<0, 0, 1>>
  /\ readOk = "false"
  /\ pc = Failed

\* C2: whenever CreateReconstructionData ends with no view loaded it returns
\* false, main exits with EXIT_FAILURE, and the filter is never given a
\* data list nor updated; a run that ends well gave the filter a view.
C2_EmptyViewsFail ==
  /\ (crdOk # "none" /\ pc # "exit_success" /\ Len(g_dataList) = 0) =>
       /\ crdOk = "false"
       /\ pc = Failed
       /\ filter.dataList = None
       /\ ~filter.updated
  /\ filter.dataList # None => Len(filter.dataList[1]) > 0

\* the loader read both lists to the end of the depth-map list, every entry
\* was skipped, and it returned false
C2_Witness ==
  /\ crdOk = "false"
  /\ depthStream.pos > 0
  /\ matrixStream.pos > 0
  /\ depthStream.eof
  /\ g_dataList = <<>>
  /\ pc = Failed

\* the steps of main in the order the spec gives
Order ==
  << "ReadArguments", "CreateReconstructionData", "CreateGridMatrixFromInput",
     "Configure", "Update", "Transform", "Write" >>

\* C5: the steps of main happen in the order validate, load views, build
\* grid matrix, configure filter, Update, transform, Write; Update happens
\* only after the arguments were accepted and at least one view was loaded;
\* a run in which ReadArguments or CreateReconstructionData returned false
\* exits with EXIT_FAILURE without an updated filter or a written output.
C5_FailFast ==
  /\ Len(events) <= Len(Order)
  /\ events = SubSeq(Order, 1, Len(events))
  /\ filter.updated <=> Happened("Update")
  /\ output.written # None <=> Happened("Write")
  /\ Happened("Update") =>
       /\ readOk = "true"
       /\ crdOk = "true"
       /\ filter.dataList # None
       /\ Len(filter.dataList[1]) > 0
       /\ filter.gridMatrix # None
  /\ (readOk = "false" \/ crdOk = "false") =>
       /\ pc = Failed
       /\ ~filter.updated
       /\ output.written = None
  /\ pc = Failed => (readOk = "false" \/ crdOk = "false")

\* a run went through every step and wrote its output
C5_Witness ==
  /\ pc = "exit_success"
  /\ events = Order
  /\ output.written = Some(<<"o">>)

\* C3: a run given a thickness or a rho that is <= 0 never updates the
\* filter and never ends well.
C3_RayParametersRejected ==
  (readOk # "none" /\ (g.rayPotentialThick <= 0 \/ g.rayPotentialRho <= 0)) =>
    /\ ~filter.updated
    /\ pc # "exit_success"

\* line n of a .krtd file starts with three numbers
HasRow(file, n) ==
  /\ n <= Len(file.lines)
  /\ Len(file.lines[n]) >= 3
  /\ \A j \in 1 .. 3 : file.lines[n][j].isNum

\* C4: every view of g_dataList has a depth map that was read from its file
\* and a .krtd file that holds all of K, R and T.
C4_ViewsComplete ==
  \A v \in Views :
    /\ v.depthMap.read
    /\ files.krtd[v.krtd].open
    /\ \A n \in {1, 2, 3, 5, 6, 7, 9} : HasRow(files.krtd[v.krtd], n)

\* C6: for every view of g_dataList the bottom row of matrixTR is
\* [0,0,0,1], its upper-left block is the R of the view's .krtd file and the
\* first three entries of its column 3 are the file's T.
C6_PoseFromFile ==
  \A v \in Views :
    LET file == files.krtd[v.krtd]
    IN  /\ v.matrixTR[3] = [j \in 0 .. 3 |-> IF j = 3 THEN 1 ELSE 0]
        /\ \A i \in 0 .. 2 :
             /\ HasRow(file, 5 + i)
             /\ \A j \in 0 .. 2 : v.matrixTR[i][j] = file.lines[5 + i][j + 1].val
        /\ HasRow(file, 9)
        /\ \A i \in 0 .. 2 : v.matrixTR[i][3] = file.lines[9][i + 1].val

\* What does hold of every view: the bottom row of matrixTR is [0,0,0,1],
\* and R and T are lines 5-7 and 9 of the view's .krtd file whenever each of
\* those lines starts with three numbers.
PoseOfLaidOutFile ==
  \A v \in Views :
    LET file == files.krtd[v.krtd]
    IN  /\ v.matrixTR[3] = [j \in 0 .. 3 |-> IF j = 3 THEN 1 ELSE 0]
        /\ (\A n \in {5, 6, 7, 9} : HasRow(file, n)) =>
              /\ \A i \in 0 .. 2 : \A j \in 0 .. 2 :
                   v.matrixTR[i][j] = file.lines[5 + i][j + 1].val
              /\ \A i \in 0 .. 2 : v.matrixTR[i][3] = file.lines[9][i + 1].val

\* C7: once ReadArguments has returned with a required argument absent or
\* incomplete it has returned false, and no grid vector is ever indexed
\* beyond its size.
C7_RequiredArguments ==
  /\ ( /\ readOk # "none"
       /\ \/ ~Complete(argv.gridDims)
          \/ ~Complete(argv.gridSpacing)
          \/ ~Complete(argv.gridOrigin)
          \/ ~Complete(argv.gridVecX)
          \/ ~Complete(argv.gridVecY)
          \/ ~Complete(argv.gridVecZ)
          \/ argv.outputGridFilename = None
          \/ argv.dataFolder = None ) => readOk = "false"
  /\ ~ub.vectorIndex

\* the determinant of the matrix of rows X, Y, Z
Det(X, Y, Z) ==
  X[1] * (Y[2] * Z[3] - Y[3] * Z[2]) - X[2] * (Y[1] * Z[3] - Y[3] * Z[1])
    + X[3] * (Y[1] * Z[2] - Y[2] * Z[1])

\* C8: with grid vectors that do not span three dimensions the grid matrix
\* is never built and the filter never updated.
C8_DegenerateRejected ==
  ( /\ Complete(argv.gridVecX) /\ Complete(argv.gridVecY) /\ Complete(argv.gridVecZ)
    /\ Det(argv.gridVecX, argv.gridVecY, argv.gridVecZ) = 0 ) =>
    /\ ~Happened("CreateGridMatrixFromInput")
    /\ ~filter.updated

\* vtkMatrix4x4::MultiplyPoint on a direction (x, y, z, 0), its first three
\* coordinates
Apply(M, p) == [i \in 1 .. 3 |-> M[i - 1][0] * p[1] + M[i - 1][1] * p[2] + M[i - 1][2] * p[3]]

\* C9: the grid matrix maps the unit steps along the grid axes X, Y, Z to
\* gridVecX, gridVecY, gridVecZ, and is the matrix the debug message of
\* CreateGridMatrixFromInput prints.
C9_BasisMapsAxes ==
  (g_gridMatrix # None /\ Complete(g.gridVecX) /\ Complete(g.gridVecY)
     /\ Complete(g.gridVecZ)) =>
    LET M == g_gridMatrix[1]
    IN  /\ Apply(M, <<1, 0, 0>>) = g.gridVecX
        /\ Apply(M, <<0, 1, 0>>) = g.gridVecY
        /\ Apply(M, <<0, 0, 1>>) = g.gridVecZ
        /\ \A i \in 0 .. 2 : \A j \in 0 .. 2 :
             gridInfo[1][i][j + 1] = to_string(M[i][j])

\* C10: every view pairs the k-th entry (non-blank line) of the depth-map
\* list with the k-th line of the matrix list, read in that iteration, and
\* the last element of an empty split result is never indexed.
C10_ViewsPaired ==
  LET depthList == FileAt("text", InFolder(g.pathFolder, g.depthMapContainer))
      matrixList == FileAt("text", InFolder(g.pathFolder, g.KRTContainer))
  IN  /\ ~ub.emptyBack
      /\ \A v \in Views :
           LET k == Cardinality({ n \in 1 .. v.depthLine : depthList.lines[n] # <<>> })
               elems == SplitString(matrixList.lines[k], Slash, <<>>)
           IN  /\ v.matrixFresh
               /\ v.matrixLine = k
               /\ elems # <<>>
               /\ v.krtd = Resolve(InFolder(g.pathFolder, elems[Len(elems)]))

====
